---------------------------- MODULE Spec2Model ----------------------------
(***************************************************************************)
(* State-machine model of src/src/admm.h: the projection/selection ADMM    *)
(* loop admm() and its instrumented twin admm_benchmark().                 *)
(*                                                                         *)
(* Matrices are 1 x 1 arma::mat objects, for which the Frobenius norm is   *)
(* the absolute value of the single entry, so every matrix is one double.  *)
(*                                                                         *)
(* A double is modelled by its value: a record [k, m, e] with k = "fin"    *)
(* for the finite value m * 2^e (m odd, or m = 0 and e = 0), and k =       *)
(* "nan", "pinf", "ninf" for the IEEE-754 specials.  Arithmetic rounds     *)
(* the exact result to binary64: overflow to an infinity at 2^1024,        *)
(* round-to-nearest-even on the subnormal grid of 2^-1074, absorption of   *)
(* an addend below half an ulp.  Values whose exact result would need a    *)
(* mantissa wider than MantBits are outside the model ("oom") and are      *)
(* never reached from the inputs of Init (see InModel).  The sign of zero  *)
(* is not kept: the only zero divisor the loop can meet is admm_penalty,   *)
(* which starts positive and therefore underflows to +0.                   *)
(***************************************************************************)
EXTENDS Integers, Sequences, FiniteSets, TLC

-----------------------------------------------------------------------------
(* binary64 arithmetic                                                     *)

\* widest mantissa (in bits) the model represents exactly
MantBits == 27
\* exponent of the smallest positive subnormal double, 2^-1074, negated
DenormExp == 1074
\* exponent of the largest binade of a finite double, 2^1023
MaxExp == 1023
\* a double holds 53 significant bits
Precision == 53

Pow2(n) == 2 ^ n

RECURSIVE BitLen(_)
BitLen(n) == IF n = 0 THEN 0 ELSE 1 + BitLen(n \div 2)

AbsInt(n) == IF n < 0 THEN -n ELSE n
SignInt(n) == IF n < 0 THEN -1 ELSE IF n > 0 THEN 1 ELSE 0

Fin(m, e) == [k |-> "fin", m |-> m, e |-> e]
NaN == [k |-> "nan", m |-> 0, e |-> 0]
PInf == [k |-> "pinf", m |-> 0, e |-> 0]
NInf == [k |-> "ninf", m |-> 0, e |-> 0]
OutOfModel == [k |-> "oom", m |-> 0, e |-> 0]
Zero == Fin(0, 0)
One == Fin(1, 0)
\* the literal 10.0 of the penalty rule
Ten == Fin(5, 1)

IsFin(a) == a.k = "fin"
IsNaN(a) == a.k = "nan"
IsInf(a) == a.k \in {"pinf", "ninf"}
IsZero(a) == a.k = "fin" /\ a.m = 0
\* -1, 0, 1: the sign of a non-NaN double
Sign(a) == IF a.k = "pinf" THEN 1 ELSE IF a.k = "ninf" THEN -1 ELSE SignInt(a.m)
InfOf(s) == IF s < 0 THEN NInf ELSE PInf
\* position of the leading bit of a nonzero finite double
Msb(a) == a.e + BitLen(AbsInt(a.m)) - 1

RECURSIVE Canon(_, _)
Canon(m, e) == IF m = 0 THEN Zero
               ELSE IF m % 2 = 0 THEN Canon(m \div 2, e + 1)
               ELSE Fin(m, e)

\* q * 2^-1074 for the exact value n * 2^(-1074 - k), n > 0, k > 0:
\* round to nearest, ties to even
RoundShift(n, k) ==
    IF k > BitLen(n) THEN 0
    ELSE LET q == n \div Pow2(k)
             r == n % Pow2(k)
             half == Pow2(k - 1)
         IN IF r > half \/ (r = half /\ q % 2 = 1) THEN q + 1 ELSE q

\* the double nearest to the exact value m * 2^e
RoundDouble(m, e) ==
    LET c == Canon(m, e)
    IN IF c.m = 0 THEN Zero
       ELSE IF BitLen(AbsInt(c.m)) > MantBits THEN OutOfModel
       ELSE IF Msb(c) > MaxExp THEN InfOf(c.m)
       ELSE IF c.e >= -DenormExp THEN c
       ELSE Canon(SignInt(c.m) * RoundShift(AbsInt(c.m), -DenormExp - c.e), -DenormExp)

Neg(a) == IF a.k = "pinf" THEN NInf
          ELSE IF a.k = "ninf" THEN PInf
          ELSE IF a.k = "fin" THEN Fin(-a.m, a.e)
          ELSE a

Abs(a) == IF Sign(a) < 0 THEN Neg(a) ELSE a

\* sum of two nonzero finite doubles, big the one with the higher leading bit
AddFin(big, small) ==
    IF big.e >= small.e
    THEN IF BitLen(AbsInt(big.m)) + (big.e - small.e) <= MantBits
         THEN RoundDouble(big.m * Pow2(big.e - small.e) + small.m, small.e)
         ELSE IF Msb(small) <= Msb(big) - Precision - 2 THEN big
         ELSE OutOfModel
    ELSE IF BitLen(AbsInt(small.m)) + (small.e - big.e) <= MantBits
         THEN RoundDouble(small.m * Pow2(small.e - big.e) + big.m, big.e)
         ELSE OutOfModel

Add(a, b) ==
    IF a.k = "oom" \/ b.k = "oom" THEN OutOfModel
    ELSE IF IsNaN(a) \/ IsNaN(b) THEN NaN
    ELSE IF IsInf(a) /\ IsInf(b) THEN (IF a.k = b.k THEN a ELSE NaN)
    ELSE IF IsInf(a) THEN a
    ELSE IF IsInf(b) THEN b
    ELSE IF a.m = 0 THEN b
    ELSE IF b.m = 0 THEN a
    ELSE IF Msb(a) >= Msb(b) THEN AddFin(a, b) ELSE AddFin(b, a)

Sub(a, b) == Add(a, Neg(b))

Mul(a, b) ==
    IF a.k = "oom" \/ b.k = "oom" THEN OutOfModel
    ELSE IF IsNaN(a) \/ IsNaN(b) THEN NaN
    ELSE IF IsInf(a) \/ IsInf(b)
         THEN (IF Sign(a) * Sign(b) = 0 THEN NaN ELSE InfOf(Sign(a) * Sign(b)))
    ELSE IF a.m = 0 \/ b.m = 0 THEN Zero
    ELSE IF BitLen(AbsInt(a.m)) + BitLen(AbsInt(b.m)) > MantBits THEN OutOfModel
    ELSE RoundDouble(a.m * b.m, a.e + b.e)

\* a / b; a finite divisor is a power of two (up to sign) or zero (+0)
Div(a, b) ==
    IF a.k = "oom" \/ b.k = "oom" THEN OutOfModel
    ELSE IF IsNaN(a) \/ IsNaN(b) THEN NaN
    ELSE IF IsInf(a) /\ IsInf(b) THEN NaN
    ELSE IF IsInf(a) THEN (IF Sign(b) < 0 THEN Neg(a) ELSE a)
    ELSE IF IsInf(b) THEN Zero
    ELSE IF b.m = 0 THEN (IF a.m = 0 THEN NaN ELSE InfOf(a.m))
    ELSE IF a.m = 0 THEN Zero
    ELSE IF AbsInt(b.m) # 1 THEN OutOfModel
    ELSE RoundDouble(a.m * b.m, a.e - b.e)

\* a < b on doubles: false whenever an operand is NaN
Lt(a, b) ==
    IF ~(a.k \in {"fin", "pinf", "ninf"}) \/ ~(b.k \in {"fin", "pinf", "ninf"}) THEN FALSE
    ELSE IF a.k = "pinf" \/ b.k = "ninf" THEN FALSE
    ELSE IF a.k = "ninf" \/ b.k = "pinf" THEN TRUE
    ELSE IF Sign(a) # Sign(b) THEN Sign(a) < Sign(b)
    ELSE IF Sign(a) = 0 THEN FALSE
    ELSE IF Msb(a) # Msb(b) THEN (IF Sign(a) > 0 THEN Msb(a) < Msb(b) ELSE Msb(a) > Msb(b))
    ELSE IF a.e >= b.e THEN a.m * Pow2(a.e - b.e) < b.m
    ELSE a.m < b.m * Pow2(b.e - a.e)

Gt(a, b) == Lt(b, a)

\* arma::norm(X, "fro") of a 1 x 1 matrix: sqrt(x * x), and when that is zero
\* or not finite, max * sqrt((x / max)^2) with max the largest |entry|.  An
\* infinite entry gives inf / inf = NaN in the rescaled pass; a finite one
\* gives |x| whenever x * x is a normal double, is exact, or rounds to zero
\* (the rescaled pass then returns |x| * sqrt(1)).
Norm(a) ==
    IF a.k = "oom" THEN OutOfModel
    ELSE IF ~IsFin(a) THEN NaN
    ELSE IF a.m = 0 THEN Zero
    ELSE IF 2 * Msb(a) >= -(MaxExp - 1) THEN Abs(a)
    ELSE IF 2 * a.e >= -DenormExp THEN Abs(a)
    ELSE IF 2 * Msb(a) + 1 < -(DenormExp + 1) THEN Abs(a)
    ELSE OutOfModel


-----------------------------------------------------------------------------
(* inputs of a call                                                        *)

\* largest iteration budget a call is given
MaxIterBound == 3
\* most entries a caller's history vector holds before admm_benchmark runs
MaxPrefill == 1

\* the smallest positive double, 2^-1074
Tiny == Fin(1, -DenormExp)
\* the largest power of two a double holds, 2^1023
Huge == Fin(1, MaxExp)

InputVals == {Zero, One, Fin(-1, 1), Tiny}
ZVals == {Zero, One}
UVals == {Zero, One}
PenaltyVals == {One, Tiny, Huge}
AdjustVals == {Fin(1, 1)}
ToleranceVals == {Zero, Fin(1, -20), Fin(1, 1)}
MaxIterVals == -1 .. MaxIterBound
\* the functors a caller passes: the identity, the Euclidean projection onto
\* the interval [-1, 1], the soft threshold at 1 * scale
ProjectionOps == {"identity", "box"}
SelectionOps == {"identity", "soft"}
\* durations t2 - t1 read off the wall clock
TimeVals == {0, 1}
TruthVals == {One}

\* projection(x): the functor F applied to x in place
Projection(op, x) ==
    IF op = "box"
    THEN (IF Gt(x, One) THEN One ELSE IF Lt(x, Neg(One)) THEN Neg(One) ELSE x)
    ELSE x

\* selection(z, 1.0 / admm_penalty): the functor G applied to z in place
Selection(op, v, scale) ==
    IF op = "soft"
    THEN (IF Gt(v, scale) THEN Sub(v, scale)
          ELSE IF Lt(v, Neg(scale)) THEN Add(v, scale)
          ELSE Zero)
    ELSE v

-----------------------------------------------------------------------------
(* admm(): lines 52-87                                                     *)

\* lines 57-58: x after the projection
ProjectedX(zv, uv, penalty, inp, proj) ==
    Projection(proj, Add(Sub(zv, uv), Div(inp, penalty)))

\* lines 61-62: z after the selection
SelectedZ(x, uv, penalty, sel) == Selection(sel, Add(x, uv), Div(One, penalty))

\* lines 65-69: the new u and the residual norms, from x and the new z
DualAndResiduals(z_old, uv, penalty, x, z1) ==
    [x |-> x, z |-> z1, u |-> Sub(Add(uv, x), z1),
     rr |-> Norm(Sub(x, z1)),
     ss |-> Mul(penalty, Norm(Sub(z1, z_old)))]

\* lines 61-69, from the x of lines 57-58
BodyFromX(zv, uv, penalty, sel, x) ==
    DualAndResiduals(zv, uv, penalty, x, SelectedZ(x, uv, penalty, sel))

\* one pass through lines 54-69: x, the new z and u, and the residual norms
Body(zv, uv, penalty, inp, proj, sel) ==
    BodyFromX(zv, uv, penalty, sel, ProjectedX(zv, uv, penalty, inp, proj))

\* mutant of Converged: the comparisons turned round
ConvergedFlipped(r, s, tol) == Lt(tol, r) /\ Lt(tol, s)

\* line 72
Converged(r, s, tol) == Lt(r, tol) /\ Lt(s, tol)

\* mutant of PenaltyAdjust: the penalty is rescaled and u is not
PenaltyAdjustNoRescale(penalty, uv, r, s, adj) ==
    IF Gt(r, Mul(Ten, s))
    THEN [penalty |-> Mul(penalty, adj), u |-> uv]
    ELSE IF Gt(s, Mul(Ten, r))
    THEN [penalty |-> Div(penalty, adj), u |-> uv]
    ELSE [penalty |-> penalty, u |-> uv]

\* lines 78-84
PenaltyAdjust(penalty, uv, r, s, adj) ==
    IF Gt(r, Mul(Ten, s))
    THEN [penalty |-> Mul(penalty, adj), u |-> Div(uv, adj)]
    ELSE IF Gt(s, Mul(Ten, r))
    THEN [penalty |-> Div(penalty, adj), u |-> Mul(uv, adj)]
    ELSE [penalty |-> penalty, u |-> uv]

\* mutants of LoopGuard: an inclusive bound, a bound one short, and a body
\* that runs once before the bound is looked at
LoopGuardInclusive(n, max) == n <= max
LoopGuardShort(n, max) == n + 1 < max
LoopGuardDoWhile(n, max) == n = 0 \/ n < max

\* line 52: the loop condition
LoopGuard(n, max) == n < max

\* mutant of CountOnBreak: the break without the increment
CountOnBreakForgotten(n) == n

\* line 73: the count after the converging iteration
CountOnBreak(n) == n + 1

\* mutant of NextPc: the loop goes on after the test has passed
NextPcNoBreak(converged) == "loop"

\* lines 72-75 and 85: where control goes after the convergence test
NextPc(converged) == IF converged THEN "break" ELSE "loop"

VARIABLES
    input, admm_adjust, tolerance, maxiter, projection, selection, truth,
    z, u, admm_penalty, niter, rr, ss, pc, ret,
    conv, bodies, projCalls, selCalls, call, entry, trail,
    z_b, u_b, penalty_b, niter_b, pc_b, ret_b, conv_b, times, errs, prefill

params == <<input, admm_adjust, tolerance, maxiter, truth>>
admmVars == <<projection, selection, z, u, admm_penalty, niter, rr, ss, pc, ret,
              conv, bodies, projCalls, selCalls, call, entry, trail>>
benchVars == <<z_b, u_b, penalty_b, niter_b, pc_b, ret_b, conv_b, times, errs, prefill>>
vars == <<params, admmVars, benchVars>>

Init ==
    /\ input \in InputVals
    /\ admm_adjust \in AdjustVals
    /\ tolerance \in ToleranceVals
    /\ maxiter \in MaxIterVals
    /\ projection \in ProjectionOps
    /\ selection \in SelectionOps
    /\ truth \in TruthVals
    /\ z \in ZVals
    /\ u \in UVals
    /\ admm_penalty \in PenaltyVals
    /\ niter = 0
    /\ rr = NaN
    /\ ss = NaN
    /\ pc = "loop"
    /\ ret = 0
    /\ conv = FALSE
    /\ bodies = 0
    /\ projCalls = 0
    /\ selCalls = 0
    /\ call = 1
    /\ entry = [z |-> z, u |-> u, penalty |-> admm_penalty]
    /\ trail = <<>>
    /\ z_b = z
    /\ u_b = u
    /\ penalty_b = admm_penalty
    /\ niter_b = 0
    /\ pc_b = "loop"
    /\ ret_b = 0
    /\ conv_b = FALSE
    /\ \E n \in 0 .. MaxPrefill :
          /\ times = [i \in 1 .. n |-> 0]
          /\ errs = [i \in 1 .. n |-> Zero]
          /\ prefill = n

\* lines 72-85 on the result b of lines 54-69: the test, the count, the
\* break or the penalty adjustment
TestAndAdjust(b) ==
    LET c == Converged(b.rr, b.ss, tolerance)
        a == PenaltyAdjust(admm_penalty, b.u, b.rr, b.ss, admm_adjust)
    IN /\ z' = b.z
       /\ rr' = b.rr
       /\ ss' = b.ss
       /\ bodies' = bodies + 1
       /\ projCalls' = projCalls + 1
       /\ selCalls' = selCalls + 1
       /\ conv' = c
       /\ pc' = NextPc(c)
       /\ niter' = IF c THEN CountOnBreak(niter) ELSE niter + 1
       /\ u' = IF c THEN b.u ELSE a.u
       /\ admm_penalty' = IF c THEN admm_penalty ELSE a.penalty
       /\ trail' = Append(trail, [x |-> b.x, z |-> z', dual |-> b.u, rr |-> rr',
                                  ss |-> ss', conv |-> conv', penaltyIn |-> admm_penalty,
                                  u |-> u', penalty |-> admm_penalty'])

\* one execution of the loop body, lines 52-85
AdmmIterate ==
    /\ pc = "loop"
    /\ LoopGuard(niter, maxiter)
    /\ TestAndAdjust(Body(z, u, admm_penalty, input, projection, selection))
    /\ UNCHANGED <<params, projection, selection, ret, call, entry, benchVars>>

\* line 87, reached by the break of line 74 or by the loop condition failing
AdmmReturn ==
    /\ \/ pc = "break"
       \/ pc = "loop" /\ ~LoopGuard(niter, maxiter)
    /\ ret' = niter
    /\ pc' = "done"
    /\ UNCHANGED <<params, projection, selection, z, u, admm_penalty, niter, rr, ss,
                   conv, bodies, projCalls, selCalls, call, entry, trail, benchVars>>

-----------------------------------------------------------------------------
(* admm_benchmark(): lines 108-173                                         *)

\* lines 118-119: x after the projection
ProjectedXB(zv, uv, penalty, inp, proj) ==
    Projection(proj, Add(Sub(zv, uv), Div(inp, penalty)))

\* lines 122-123: z after the selection
SelectedZB(x, uv, penalty, sel) == Selection(sel, Add(x, uv), Div(One, penalty))

\* lines 126-130: the new u and the residual norms, from x and the new z
DualAndResidualsB(z_old, uv, penalty, x, z1) ==
    [x |-> x, z |-> z1, u |-> Sub(Add(uv, x), z1),
     rr |-> Norm(Sub(x, z1)),
     ss |-> Mul(penalty, Norm(Sub(z1, z_old)))]

\* lines 122-130, from the x of lines 118-119
BodyFromXB(zv, uv, penalty, sel, x) ==
    DualAndResidualsB(zv, uv, penalty, x, SelectedZB(x, uv, penalty, sel))

\* lines 115-130
BodyB(zv, uv, penalty, inp, proj, sel) ==
    BodyFromXB(zv, uv, penalty, sel, ProjectedXB(zv, uv, penalty, inp, proj))

\* line 133
ConvergedB(r, s, tol) == Lt(r, tol) /\ Lt(s, tol)

\* mutant of PenaltyAdjustB: the two branches of the rule exchanged
PenaltyAdjustBSwapped(penalty, uv, r, s, adj) ==
    IF Gt(r, Mul(Ten, s))
    THEN [penalty |-> Div(penalty, adj), u |-> Mul(uv, adj)]
    ELSE IF Gt(s, Mul(Ten, r))
    THEN [penalty |-> Mul(penalty, adj), u |-> Div(uv, adj)]
    ELSE [penalty |-> penalty, u |-> uv]

\* lines 151-157
PenaltyAdjustB(penalty, uv, r, s, adj) ==
    IF Gt(r, Mul(Ten, s))
    THEN [penalty |-> Mul(penalty, adj), u |-> Div(uv, adj)]
    ELSE IF Gt(s, Mul(Ten, r))
    THEN [penalty |-> Div(penalty, adj), u |-> Mul(uv, adj)]
    ELSE [penalty |-> penalty, u |-> uv]

\* lines 138-142 and 162-166: eigvec * eigvec.t() for the leading eigenvector
\* of the 1 x 1 matrix z, which is the unit vector whatever the entry
EigenProjection(zv) == IF IsFin(zv) THEN One ELSE NaN

\* lines 145 and 169: the entry pushed onto errs
ErrorOf(zv, tr) == Norm(Sub(EigenProjection(zv), tr))

\* mutant of PushTimeBreak: the converging iteration is not timed
PushTimeBreakSkipped(ts, d) == ts

\* lines 135-136: times after the push of the converging iteration
PushTimeBreak(ts, d) == Append(ts, d)

\* lines 138-145: errs after the push of the converging iteration
PushErrBreak(es, zv, tr) == Append(es, ErrorOf(zv, tr))

\* lines 159-160: times after the push of an iteration that goes on
PushTime(ts, d) == Append(ts, d)

\* lines 162-169: errs after the push of an iteration that goes on
PushErr(es, zv, tr) == Append(es, ErrorOf(zv, tr))

\* lines 133-169 on the result b of lines 115-130: the test and the break,
\* or the penalty adjustment, each with its push onto times and errs
TestAndAdjustB(b) ==
    /\ z_b' = b.z
    /\ niter_b' = niter_b + 1
    /\ IF ConvergedB(b.rr, b.ss, tolerance)
       THEN /\ \E d \in TimeVals : times' = PushTimeBreak(times, d)
            /\ errs' = PushErrBreak(errs, z_b', truth)
            /\ u_b' = b.u
            /\ penalty_b' = penalty_b
            /\ conv_b' = TRUE
            /\ pc_b' = "break"
       ELSE LET a == PenaltyAdjustB(penalty_b, b.u, b.rr, b.ss, admm_adjust)
            IN /\ u_b' = a.u
               /\ penalty_b' = a.penalty
               /\ \E d \in TimeVals : times' = PushTime(times, d)
               /\ errs' = PushErr(errs, z_b', truth)
               /\ conv_b' = FALSE
               /\ pc_b' = "loop"

\* one execution of the loop body, lines 108-170
BenchIterate ==
    /\ pc = "done"
    /\ pc_b = "loop"
    /\ niter_b < maxiter
    /\ TestAndAdjustB(BodyB(z_b, u_b, penalty_b, input, projection, selection))
    /\ UNCHANGED <<params, admmVars, ret_b, prefill>>

\* line 172
BenchReturn ==
    /\ pc = "done"
    /\ \/ pc_b = "break"
       \/ pc_b = "loop" /\ ~(niter_b < maxiter)
    /\ ret_b' = niter_b
    /\ pc_b' = "done"
    /\ UNCHANGED <<params, admmVars, z_b, u_b, penalty_b, niter_b, conv_b,
                   times, errs, prefill>>

-----------------------------------------------------------------------------
(* the caller: one thread, which calls admm, then admm_benchmark on the     *)
(* same arguments and the same starting z, u and admm_penalty, then admm   *)
(* again on the state the first call left                                  *)

\* a second call of admm (lines 43-52) on the z, u and admm_penalty that a
\* converged call left behind, with identity functors and the same input,
\* admm_adjust, maxiter and tolerance
WarmStart ==
    /\ call = 1
    /\ pc = "done"
    /\ conv
    /\ pc_b = "done"
    /\ call' = 2
    /\ projection' = "identity"
    /\ selection' = "identity"
    /\ entry' = [z |-> z, u |-> u, penalty |-> admm_penalty]
    /\ niter' = 0
    /\ rr' = NaN
    /\ ss' = NaN
    /\ pc' = "loop"
    /\ ret' = 0
    /\ conv' = FALSE
    /\ bodies' = 0
    /\ projCalls' = 0
    /\ selCalls' = 0
    /\ trail' = <<>>
    /\ UNCHANGED <<params, z, u, admm_penalty, benchVars>>

Next == AdmmIterate \/ AdmmReturn \/ BenchIterate \/ BenchReturn \/ WarmStart

Spec == Init /\ [][Next]_vars

\* the calls whose arguments are ordinary doubles, far from the ends of the
\* exponent range
InitOrdinary ==
    /\ Init
    /\ input \in InputVals \ {Tiny}
    /\ admm_penalty \in PenaltyVals \ {Tiny, Huge}

SpecOrdinary == InitOrdinary /\ [][Next]_vars

\* every double of the state is one the model represents
InModel ==
    /\ \A v \in {z, u, admm_penalty, rr, ss, z_b, u_b, penalty_b} : v.k # "oom"
    /\ \A i \in 1 .. Len(errs) : errs[i].k # "oom"

-----------------------------------------------------------------------------
(* properties                                                              *)

Positive(a) == Gt(a, Zero)
\* no executed iteration of the current admm call passed the convergence test
NeverConverged == \A i \in 1 .. Len(trail) : ~trail[i].conv
Identity == projection = "identity" /\ selection = "identity"
Unchanged == z = entry.z /\ u = entry.u /\ admm_penalty = entry.penalty

\* C1 as stated: the count returned by admm and by admm_benchmark is at most
\* maxiter, and it equals maxiter only when the solve did not converge.
C1_Original ==
    /\ pc = "done" => (ret <= maxiter /\ (ret = maxiter => ~conv))
    /\ pc_b = "done" => (ret_b <= maxiter /\ (ret_b = maxiter => ~conv_b))

\* C1 amended: the count returned by admm and by admm_benchmark is at most
\* maxiter when maxiter >= 0 and is 0 when maxiter < 0; a count below maxiter
\* is returned only by a solve that converged (a solve that converges in its
\* last allowed iteration returns maxiter as well).
C1_CountBound ==
    /\ pc = "done" =>
          /\ maxiter >= 0 => ret <= maxiter
          /\ maxiter < 0 => ret = 0
          /\ ret < maxiter => conv
    /\ pc_b = "done" =>
          /\ maxiter >= 0 => ret_b <= maxiter
          /\ maxiter < 0 => ret_b = 0
          /\ ret_b < maxiter => conv_b

\* a call that converged in its last allowed iteration and returned maxiter
C1_Witness == pc = "done" /\ conv /\ maxiter >= 2 /\ ret = maxiter

\* C2: the first iteration of admm whose residuals pass the convergence test
\* is the last one executed (the projection, the selection and the dual
\* update have each run once per iteration and not after it), and the value
\* returned is the number of loop bodies executed, the converging one included.
C2_StopsAtFirstConvergence ==
    /\ Len(trail) = bodies
    /\ projCalls = bodies
    /\ selCalls = bodies
    /\ \A i \in 1 .. Len(trail) :
          /\ trail[i].conv <=> (Lt(trail[i].rr, tolerance) /\ Lt(trail[i].ss, tolerance))
          /\ trail[i].conv => i = Len(trail)
    /\ conv => pc \in {"break", "done"}
    /\ (conv /\ pc = "done") => (ret = bodies /\ niter = bodies)

\* a call that converged in its third iteration and returned 3
C2_Witness ==
    /\ pc = "done" /\ conv /\ ret = 3 /\ bodies = 3
    /\ ~trail[1].conv /\ ~trail[2].conv /\ trail[3].conv

\* C3: with maxiter >= 0, a call of admm none of whose iterations passes the
\* convergence test (a NaN residual fails every comparison) executes the
\* loop body exactly maxiter times and returns exactly maxiter.
C3_BudgetExhausted ==
    (pc = "done" /\ maxiter >= 0 /\ NeverConverged) => (ret = maxiter /\ bodies = maxiter)

\* a call whose residual became NaN and which ran out its budget of 3
C3_Witness ==
    /\ pc = "done" /\ maxiter = 3 /\ NeverConverged /\ ret = 3 /\ bodies = 3
    /\ IsNaN(rr)

\* C4 as stated: after a call of admm_benchmark the lengths of times and of
\* errs both equal the returned iteration count.
C4_Original == pc_b = "done" => (Len(times) = ret_b /\ Len(errs) = ret_b)

\* C4 amended: a call of admm_benchmark appends exactly one entry per executed
\* iteration, the converging one included, to times and to errs: each history
\* is longer than it was on entry by the returned iteration count, and so has
\* that length when it was empty on entry.
C4_HistoryGrowth ==
    /\ Len(times) = prefill + niter_b
    /\ Len(errs) = prefill + niter_b
    /\ pc_b = "done" => (Len(times) = prefill + ret_b /\ Len(errs) = prefill + ret_b)

\* a benchmark call on empty histories that converged in its second iteration
C4_Witness ==
    /\ pc_b = "done" /\ conv_b /\ ret_b = 2 /\ prefill = 0
    /\ Len(times) = 2 /\ Len(errs) = 2

\* C7: a call of admm with maxiter = 0 never executes the loop body: it
\* returns 0, invokes neither functor and leaves z, u and admm_penalty as they
\* were on entry.
C7_ZeroBudget ==
    maxiter = 0 =>
        /\ bodies = 0 /\ projCalls = 0 /\ selCalls = 0
        /\ Unchanged
        /\ pc = "done" => ret = 0

\* a returned call with maxiter = 0 on a nonzero z and u
C7_Witness ==
    /\ maxiter = 0 /\ pc = "done" /\ ret = 0
    /\ z = One /\ u = One /\ selection = "soft" /\ projection = "box"

\* C9: on the same arguments and the same starting z, u and admm_penalty,
\* admm_benchmark leaves after each of its iterations the z, u and
\* admm_penalty that admm left after that iteration, passes the convergence
\* test in the same iteration and returns the same count.
C9_SameIterates ==
    call = 1 =>
        /\ niter_b <= Len(trail)
        /\ niter_b >= 1 =>
              /\ trail[niter_b].z = z_b
              /\ trail[niter_b].u = u_b
              /\ trail[niter_b].penalty = penalty_b
              /\ trail[niter_b].conv = conv_b
        /\ niter_b = 0 => (z_b = entry.z /\ u_b = entry.u /\ penalty_b = entry.penalty)
        /\ pc_b = "done" =>
              /\ ret_b = ret
              /\ conv_b = conv
              /\ z_b = z /\ u_b = u /\ penalty_b = admm_penalty

\* both calls adjusted the penalty, converged in a later iteration and returned
C9_Witness ==
    /\ call = 1 /\ pc_b = "done" /\ conv_b /\ ret_b >= 2
    /\ penalty_b # entry.penalty

\* C10: with identity functors, a zero input, z = u = 0 on entry,
\* admm_penalty > 0, tolerance > 0 and maxiter >= 1, the first iteration of
\* admm computes x = 0, r = 0 and s = 0, the call returns 1, and z, u and
\* admm_penalty are as on entry.
C10_ZeroScenario ==
    (/\ call = 1 /\ Identity /\ IsZero(input) /\ IsZero(entry.z) /\ IsZero(entry.u)
     /\ Positive(entry.penalty) /\ Positive(tolerance) /\ maxiter >= 1) =>
        /\ pc # "loop" =>
              /\ Len(trail) = 1
              /\ IsZero(trail[1].x) /\ IsZero(trail[1].rr) /\ IsZero(trail[1].ss)
              /\ Unchanged
        /\ pc = "done" => ret = 1

\* the scenario with admm_penalty = 1, admm_adjust = 2, tolerance = 2^-20 and
\* the largest budget, returned
C10_Witness ==
    /\ call = 1 /\ Identity /\ IsZero(input) /\ IsZero(entry.z) /\ IsZero(entry.u)
    /\ entry.penalty = One /\ admm_adjust = Fin(1, 1) /\ tolerance = Fin(1, -20)
    /\ maxiter = MaxIterBound /\ pc = "done" /\ ret = 1

\* a >= b on doubles: false whenever an operand is NaN
Ge(a, b) == ~IsNaN(a) /\ ~IsNaN(b) /\ ~Lt(a, b)

\* the penalty rule of C5 in the iteration recorded as t, products included
AdjustsAsClaimed(t) ==
    IF t.conv
    THEN t.penalty = t.penaltyIn /\ t.u = t.dual
    ELSE /\ Gt(t.rr, Mul(Ten, t.ss)) =>
               /\ t.penalty = Mul(t.penaltyIn, admm_adjust)
               /\ t.u = Div(t.dual, admm_adjust)
         /\ Gt(t.ss, Mul(Ten, t.rr)) =>
               /\ t.penalty = Div(t.penaltyIn, admm_adjust)
               /\ t.u = Mul(t.dual, admm_adjust)
         /\ (Ge(Mul(Ten, t.ss), t.rr) /\ Ge(Mul(Ten, t.rr), t.ss)) =>
               /\ t.penalty = t.penaltyIn
               /\ t.u = t.dual
         /\ Mul(t.penalty, t.u) = Mul(t.penaltyIn, t.dual)

\* C5 as stated: in an iteration of admm that fails the convergence test, with
\* admm_penalty > 0 and admm_adjust > 1, r > 10 s multiplies admm_penalty and
\* divides u by admm_adjust, s > 10 r divides admm_penalty and multiplies u,
\* otherwise both are left alone, and in every case admm_penalty * u is what it
\* was before the adjustment; the converging iteration adjusts nothing.
C5_Original ==
    \A i \in 1 .. Len(trail) :
        (Positive(trail[i].penaltyIn) /\ Gt(admm_adjust, One)) => AdjustsAsClaimed(trail[i])

\* the scalings of the iteration recorded as t were exact: undoing them gives
\* back the admm_penalty and the u they were applied to
ScalingExact(t) ==
    /\ Gt(t.rr, Mul(Ten, t.ss)) =>
          (Div(t.penalty, admm_adjust) = t.penaltyIn /\ Mul(t.u, admm_adjust) = t.dual)
    /\ (~Gt(t.rr, Mul(Ten, t.ss)) /\ Gt(t.ss, Mul(Ten, t.rr))) =>
          (Mul(t.penalty, admm_adjust) = t.penaltyIn /\ Div(t.u, admm_adjust) = t.dual)

\* C5 amended: the rule is as stated (r > 10 s multiplies admm_penalty and
\* divides u by admm_adjust, s > 10 r divides and multiplies, otherwise and in
\* the converging iteration nothing changes), the scalings being those of
\* double arithmetic; admm_penalty * u is what it was before the adjustment
\* whenever both scalings are exact.
C5_PenaltyRule ==
    \A i \in 1 .. Len(trail) :
        LET t == trail[i]
        IN (Positive(t.penaltyIn) /\ Gt(admm_adjust, One)) =>
              IF t.conv
              THEN t.penalty = t.penaltyIn /\ t.u = t.dual
              ELSE /\ Gt(t.rr, Mul(Ten, t.ss)) =>
                         /\ t.penalty = Mul(t.penaltyIn, admm_adjust)
                         /\ t.u = Div(t.dual, admm_adjust)
                   /\ Gt(t.ss, Mul(Ten, t.rr)) =>
                         /\ t.penalty = Div(t.penaltyIn, admm_adjust)
                         /\ t.u = Mul(t.dual, admm_adjust)
                   /\ (Ge(Mul(Ten, t.ss), t.rr) /\ Ge(Mul(Ten, t.rr), t.ss)) =>
                         /\ t.penalty = t.penaltyIn
                         /\ t.u = t.dual
                   /\ ScalingExact(t) => Mul(t.penalty, t.u) = Mul(t.penaltyIn, t.dual)

\* a call one of whose iterations raised the penalty and shrank a nonzero u,
\* and another of whose iterations lowered the penalty
C5_Witness ==
    /\ \E i \in 1 .. Len(trail) :
          /\ ~trail[i].conv /\ Gt(trail[i].rr, Mul(Ten, trail[i].ss))
          /\ ~IsZero(trail[i].dual) /\ IsFin(trail[i].dual)
          /\ trail[i].u = Div(trail[i].dual, admm_adjust)
          /\ ScalingExact(trail[i])
    /\ \E j \in 1 .. Len(trail) :
          /\ ~trail[j].conv /\ Gt(trail[j].ss, Mul(Ten, trail[j].rr))
          /\ trail[j].penalty = Div(trail[j].penaltyIn, admm_adjust)
          /\ ScalingExact(trail[j])

\* C6 as stated: after a call of admm that ended by convergence, a fresh call
\* from the z, u and admm_penalty it left, with identity functors and
\* maxiter >= 1, returns 1.
C6_Original == (call = 2 /\ pc = "done") => ret = 1

\* C6 amended: after a call of admm that ended by convergence and left u = 0
\* and admm_penalty > 0, a fresh call from that z, u and admm_penalty with
\* identity functors, a zero input matrix and maxiter >= 1 computes x = z,
\* r = 0 and s = 0 in its first iteration and returns 1, leaving z, u and
\* admm_penalty as they were.
C6_WarmStart ==
    (call = 2 /\ IsZero(entry.u) /\ IsZero(input) /\ Positive(entry.penalty)) =>
        /\ pc # "loop" =>
              /\ Len(trail) = 1
              /\ trail[1].x = entry.z /\ IsZero(trail[1].rr) /\ IsZero(trail[1].ss)
              /\ Unchanged
        /\ pc = "done" => ret = 1

\* a warm start on z = 1, u = 0 with a zero input that returned 1
C6_Witness ==
    /\ call = 2 /\ pc = "done" /\ ret = 1
    /\ IsZero(entry.u) /\ IsZero(input) /\ entry.z = One /\ maxiter = MaxIterBound

\* C8 as stated: with admm_penalty > 0 on entry and admm_adjust > 1,
\* admm_penalty > 0 in every state of a call of admm.
C8_Original ==
    (Positive(entry.penalty) /\ Gt(admm_adjust, One)) => Positive(admm_penalty)

=============================================================================
